---- MODULE Spec2Model ----
(***************************************************************************)
(* Model of the workspace / role-based access control backend:             *)
(*   RolesGuard.canActivate        src/modules/auth/guards/roles.guard.ts  *)
(*   WorkspaceController           (route table and declared role sets)    *)
(*   WorkspaceService              (create / find / update / remove)       *)
(*   AuthService / UsersService    (signup)                                *)
(* The three Prisma models (user, workspace, access) are the stores.       *)
(* Every await on a store operation is a suspension point, so a handler    *)
(* is one action per store operation.                                       *)
(***************************************************************************)
EXTENDS Integers, Sequences, FiniteSets, TLC

\* ---------------------------------------------------------------- bounds
MaxTasks == 2        \* concurrent in-flight requests
MaxWorkspaces == 2   \* workspace ids ever allocated
MaxSeedGrants == 2   \* grants in a pre-populated Access Grant Store

Tasks == 1..MaxTasks
WorkspaceIds == 1..MaxWorkspaces

\* ---------------------------------------------------------------- values
OWNER == "OWNER"
ADMIN == "ADMIN"
MEMBER == "MEMBER"
Roles == {OWNER, ADMIN, MEMBER}

Usernames == {"alice", "bob"}
Passwords == {"pw1"}
AllPasswords == {"pw1", "pw2"}
Names == {"W1", "W2"}
NoDescription == "null"
Descriptions == {NoDescription, "d1"}

\* a request parameter that is not present (undefined, falsy)
Undefined == 0
\* request.user when no authentication ran
NoUser == [id |-> 0, username |-> ""]
NoWorkspace == [id |-> 0, name |-> "", description |-> "", ownerId |-> 0]
NoAccess == [id |-> 0, userId |-> 0, workspaceId |-> 0, role |-> ""]
NoParams == [id |-> Undefined, workspaceId |-> Undefined]

\* handler metadata read by the reflector: undeclared, or a declared role list
NoRoles == [declared |-> FALSE, roles |-> {}]
RolesMeta(rs) == [declared |-> TRUE, roles |-> rs]

VARIABLES
  users,            \* user store: set of [id, username, passwordHash]
  workspaces,       \* workspace store: set of [id, name, description, ownerId]
  access,           \* access grant store, in insertion order
  nextUserId,       \* id generator of the user store
  nextWorkspaceId,  \* id generator of the workspace store
  nextAccessId,     \* id generator of the access grant store
  tasks,            \* in-flight requests: [Tasks -> request record]
  authz,            \* the guard invocation under observation (guard specification)
  filt              \* the exception filter invocation under observation (filter specification)

vars == <<users, workspaces, access, nextUserId, nextWorkspaceId, nextAccessId, tasks, authz,
          filt>>
stores == <<users, workspaces, access, nextUserId, nextWorkspaceId, nextAccessId>>

Min(S) == CHOOSE x \in S : \A y \in S : x <= y

\* ------------------------------------------------------------ store reads
\* variant: the where clause omits workspaceId
AccessFindFirstAnyWorkspace(store, userId, workspaceId, roles) ==
  LET hits == {i \in 1..Len(store) :
                 /\ store[i].userId = userId
                 /\ store[i].role \in roles}
  IN IF hits = {} THEN NoAccess ELSE store[Min(hits)]

\* variant: roles are ranked and a higher role satisfies a lower requirement
RoleRank(r) == CASE r = OWNER -> 3 [] r = ADMIN -> 2 [] OTHER -> 1
AccessFindFirstHierarchical(store, userId, workspaceId, roles) ==
  LET hits == {i \in 1..Len(store) :
                 /\ store[i].userId = userId
                 /\ store[i].workspaceId = workspaceId
                 /\ \E r \in roles : RoleRank(store[i].role) >= RoleRank(r)}
  IN IF hits = {} THEN NoAccess ELSE store[Min(hits)]

\* db.access.findFirst({where: {userId, workspaceId, role: {in: roles}}})
AccessFindFirst(store, userId, workspaceId, roles) ==
  LET hits == {i \in 1..Len(store) :
                 /\ store[i].userId = userId
                 /\ store[i].workspaceId = workspaceId
                 /\ store[i].role \in roles}
  IN IF hits = {} THEN NoAccess ELSE store[Min(hits)]

\* db.workspace.findUnique({where: {id}})
WorkspaceFindUnique(store, id) ==
  IF \E w \in store : w.id = id
  THEN CHOOSE w \in store : w.id = id
  ELSE NoWorkspace

\* db.user.findUnique({where: {username}})
findByUsername(store, username) ==
  IF \E u \in store : u.username = username
  THEN CHOOSE u \in store : u.username = username
  ELSE [id |-> 0, username |-> "", passwordHash |-> <<>>]

\* ------------------------------------------------------------ RolesGuard
Allow == [outcome |-> "allow", message |-> "", queried |-> FALSE]
Forbidden(msg, q) == [outcome |-> "Forbidden", message |-> msg, queried |-> q]

MsgUnauthenticated == "User not authenticated."
MsgNoWorkspaceId == "Workspace ID not provided in request parameters."
MsgInsufficientRole == "You do not have the required roles for this workspace."

\* request.params.id || request.params.workspaceId
ExtractWorkspaceId(params) ==
  IF params.id # Undefined THEN params.id ELSE params.workspaceId

\* variant: the user check runs before the required-roles check
canActivateUserFirst(requiredRoles, user, params, store) ==
  IF user = NoUser
  THEN Forbidden(MsgUnauthenticated, FALSE)
  ELSE IF ~requiredRoles.declared \/ Cardinality(requiredRoles.roles) = 0
  THEN Allow
  ELSE IF ExtractWorkspaceId(params) = Undefined
  THEN Forbidden(MsgNoWorkspaceId, FALSE)
  ELSE IF AccessFindFirst(store, user.id, ExtractWorkspaceId(params),
                          requiredRoles.roles) = NoAccess
  THEN Forbidden(MsgInsufficientRole, TRUE)
  ELSE [Allow EXCEPT !.queried = TRUE]

\* variant: the workspace id check runs before the user check
canActivateWorkspaceFirst(requiredRoles, user, params, store) ==
  IF ~requiredRoles.declared \/ Cardinality(requiredRoles.roles) = 0
  THEN Allow
  ELSE IF ExtractWorkspaceId(params) = Undefined
  THEN Forbidden(MsgNoWorkspaceId, FALSE)
  ELSE IF user = NoUser
  THEN Forbidden(MsgUnauthenticated, FALSE)
  ELSE IF AccessFindFirst(store, user.id, ExtractWorkspaceId(params),
                          requiredRoles.roles) = NoAccess
  THEN Forbidden(MsgInsufficientRole, TRUE)
  ELSE [Allow EXCEPT !.queried = TRUE]

\* variant: no workspace id check, the store is queried with the absent id
canActivateNoIdCheck(requiredRoles, user, params, store) ==
  IF ~requiredRoles.declared \/ Cardinality(requiredRoles.roles) = 0
  THEN Allow
  ELSE IF user = NoUser
  THEN Forbidden(MsgUnauthenticated, FALSE)
  ELSE IF AccessFindFirst(store, user.id, ExtractWorkspaceId(params),
                          requiredRoles.roles) = NoAccess
  THEN Forbidden(MsgInsufficientRole, TRUE)
  ELSE [Allow EXCEPT !.queried = TRUE]

\* RolesGuard.canActivate; `queried` records whether access.findFirst ran
canActivate(requiredRoles, user, params, store) ==
  IF ~requiredRoles.declared \/ Cardinality(requiredRoles.roles) = 0
  THEN Allow
  ELSE IF user = NoUser
  THEN Forbidden(MsgUnauthenticated, FALSE)
  ELSE IF ExtractWorkspaceId(params) = Undefined
  THEN Forbidden(MsgNoWorkspaceId, FALSE)
  ELSE IF AccessFindFirst(store, user.id, ExtractWorkspaceId(params),
                          requiredRoles.roles) = NoAccess
  THEN Forbidden(MsgInsufficientRole, TRUE)
  ELSE [Allow EXCEPT !.queried = TRUE]

\* ------------------------------------------------------------ route table
PostWorkspaces == "POST /workspaces"
GetWorkspaces == "GET /workspaces"
GetWorkspace == "GET /workspaces/:id"
PatchWorkspace == "PATCH /workspaces/:id"
DeleteWorkspace == "DELETE /workspaces/:id"
PostSignup == "POST /auth/signup"
PostSignin == "POST /auth/signin"
WorkspaceRoutes == {PostWorkspaces, GetWorkspaces, GetWorkspace, PatchWorkspace, DeleteWorkspace}
IdRoutes == {GetWorkspace, PatchWorkspace, DeleteWorkspace}

\* variant: DELETE declares no role list
RouteRolesOpenDelete(route) ==
  CASE route = GetWorkspace -> RolesMeta({OWNER, ADMIN, MEMBER})
    [] route = PatchWorkspace -> RolesMeta({OWNER, ADMIN})
    [] OTHER -> NoRoles

\* variant: DELETE also accepts ADMIN
RouteRolesAdminDelete(route) ==
  CASE route = GetWorkspace -> RolesMeta({OWNER, ADMIN, MEMBER})
    [] route = PatchWorkspace -> RolesMeta({OWNER, ADMIN})
    [] route = DeleteWorkspace -> RolesMeta({OWNER, ADMIN})
    [] OTHER -> NoRoles

\* the @Roles(...) decorator of each WorkspaceController handler
RouteRoles(route) ==
  CASE route = GetWorkspace -> RolesMeta({OWNER, ADMIN, MEMBER})
    [] route = PatchWorkspace -> RolesMeta({OWNER, ADMIN})
    [] route = DeleteWorkspace -> RolesMeta({OWNER})
    [] OTHER -> NoRoles

\* @Param('id') of the matched route
RouteParams(route, id) ==
  IF route \in IdRoutes THEN [id |-> id, workspaceId |-> Undefined] ELSE NoParams

\* ------------------------------------------------------------ requests
\* bcrypt.hash(password, saltRounds): opaque one-way value
Hash(password) == <<"bcrypt", password>>

\* bcrypt.compare(password, passwordHash)
Compare(password, passwordHash) == passwordHash = Hash(password)

\* variant: the row is returned as stored
WithoutHashKeeps(u) == u

\* const { passwordHash, ...result } = user
WithoutHash(u) == [id |-> u.id, username |-> u.username]

\* a field the UpdateWorkspaceDto does not carry
Absent == "<absent>"
NoPatch == [name |-> Absent, description |-> Absent]

NoToken == <<>>
NoResponse == [status |-> 0, message |-> "", body |-> NoWorkspace, list |-> <<>>, user |-> NoUser,
               token |-> NoToken]
\* what one call of AuthService.validateUser did
NoValidation == [called |-> FALSE, compared |-> FALSE, result |-> NoUser]
IdleTask == [pc |-> "idle", route |-> "", user |-> NoUser, id |-> Undefined,
             username |-> "", tx |-> NoWorkspace, grant |-> NoAccess, resp |-> NoResponse,
             patch |-> NoPatch, password |-> "", validation |-> NoValidation]
NoAuthz == [called |-> FALSE, route |-> "", requiredRoles |-> NoRoles,
            user |-> NoUser, params |-> NoParams, result |-> Allow]

\* ------------------------------------------------------------ exception filter
\* An exception as AllExceptionsFilter.catch sees it: whether it is an
\* HttpException (and an UnauthorizedException), getStatus(), getResponse()
\* and the Error's own message.  A field an object does not have is Absent;
\* a description that is an object is one of the two ObjectDescriptions.
ObjectWithStatusCode == "<object with statusCode>"
ObjectPlain == "<object>"
ObjectDescriptions == {ObjectWithStatusCode, ObjectPlain}
NoExceptionResponse == [kind |-> "null", text |-> "", message |-> Absent, description |-> Absent,
                        error |-> Absent, errorCode |-> Absent]
StringResponses == {[NoExceptionResponse EXCEPT !.kind = "string", !.text = "Plain failure text"]}
ObjectResponses ==
  [kind : {"object"}, text : {""}, message : {Absent, "Own message"},
   description : {Absent, "Own description"} \cup ObjectDescriptions,
   error : {Absent, "Not Found"}, errorCode : {Absent, "CUSTOM_ERROR"}]
ExceptionResponses == {NoExceptionResponse} \cup StringResponses \cup ObjectResponses
HttpStatuses == {400, 401, 404, 409, 500, 503}
HttpExceptions ==
  {e \in [http : {TRUE}, unauthorized : BOOLEAN, status : HttpStatuses,
          response : ExceptionResponses, message : {"Error message"}] :
     e.unauthorized => e.status = 401}
OtherExceptions ==
  {[http |-> FALSE, unauthorized |-> FALSE, status |-> 0, response |-> NoExceptionResponse,
    message |-> "Error message"]}
Exceptions == HttpExceptions \cup OtherExceptions
RequestIds == {"req-1", "req-2"}
Instants == {"2026-01-01T00:00:00.000Z"}

\* the code field of the body: a number (the status) or a string
NumCode(n) == [num |-> n, str |-> ""]
StrCode(c) == [num |-> 0, str |-> c]
\* an exception that is not an HttpException reaches the caller as status 500
MsgInternal == "Internal Server Error"
MsgAuthRequired == "Access to the requested resource requires authentication"
MsgUnexpected == "An unexpected error occurred."
CodeInternal == "INTERNAL_SERVER_ERROR"

\* a || b on values that are Absent when falsy
Or(a, b) == IF a # Absent THEN a ELSE b

\* lines 55-78: status, message, description and code drawn from the exception
Extract(exception) ==
  IF exception.http
  THEN LET r == exception.response
           message == CASE r.kind = "string" -> r.text
                        [] r.kind = "object" -> Or(r.message, exception.message)
                        [] OTHER -> exception.message
           d == IF r.kind = "object" THEN Or(r.description, r.error) ELSE Absent
       IN [status |-> exception.status,
           message |-> message,
           description |-> IF d = ObjectWithStatusCode THEN message ELSE d,
           code |-> IF r.errorCode # Absent THEN StrCode(r.errorCode)
                    ELSE NumCode(exception.status)]
  ELSE [status |-> 500, message |-> MsgInternal, description |-> MsgUnexpected,
        code |-> StrCode(CodeInternal)]

\* variant: the description is attached outside production mode only
AttachDescriptionDevOnly(x, production) == x.description # Absent /\ ~production

\* line 90: description && (httpStatus < 500 || NODE_ENV !== 'production')
AttachDescription(x, production) ==
  x.description # Absent /\ (x.status < 500 \/ ~production)

\* variant: a server error keeps its own message in production mode
ScrubKeepsMessage(exception, x, production) == FALSE

\* lines 108-122: the reply of a server error is made generic in production mode
Scrub(exception, x, production) ==
  /\ ~exception.unauthorized
  /\ x.status >= 500 \/ ~exception.http
  /\ production

\* variant: an exception that is not an HttpException is answered with status 200
ReplyStatusOk(exception, x) == IF exception.http THEN x.status ELSE 200

\* line 128: the status handed to httpAdapter.reply
ReplyStatus(exception, x) == x.status

\* AllExceptionsFilter.catch: the reply handed to httpAdapter.reply
catch(exception, production, requestId, now) ==
  LET x == Extract(exception)
      message == IF exception.unauthorized THEN Or(x.message, MsgAuthRequired)
                 ELSE IF Scrub(exception, x, production) THEN MsgInternal
                 ELSE x.message
      description == IF AttachDescription(x, production) /\ ~Scrub(exception, x, production)
                     THEN x.description ELSE Absent
  IN [status |-> ReplyStatus(exception, x),
      body |-> [success |-> FALSE,
                error |-> [code |-> x.code, message |-> message, description |-> description],
                timestamp |-> now,
                traceId |-> requestId]]

NoFilt == [called |-> FALSE, production |-> FALSE, exception |-> CHOOSE e \in OtherExceptions : TRUE,
           requestId |-> "", replies |-> <<>>]

\* -------------------------------------------- guard specification (SpecGuard)
\* The guard is a function of the handler metadata, the request and the
\* Access Grant Store.  SpecGuard starts from a pre-populated database
\* (grants of every role) and applies the guard to every execution context.
SeedUsers == {[id |-> 1, username |-> "alice", passwordHash |-> Hash("pw1")],
              [id |-> 2, username |-> "bob", passwordHash |-> Hash("pw1")]}
SeedWorkspace(i) == [id |-> i, name |-> "W1", description |-> NoDescription, ownerId |-> 1]
SeedGrantRows(k) == [userId : {1, 2}, workspaceId : 1..k, role : Roles]
SeedGrant(row, i) == [id |-> i, userId |-> row.userId, workspaceId |-> row.workspaceId, role |-> row.role]

InitSeeded ==
  /\ users = SeedUsers
  /\ nextUserId = 3
  /\ workspaces = {SeedWorkspace(i) : i \in WorkspaceIds}
  /\ nextWorkspaceId = MaxWorkspaces + 1
  /\ \E n \in 0..MaxSeedGrants : \E rows \in [1..n -> SeedGrantRows(MaxWorkspaces)] :
       /\ access = [i \in 1..n |-> SeedGrant(rows[i], i)]
       /\ nextAccessId = n + 1
  /\ tasks = [t \in Tasks |-> IdleTask]
  /\ authz = NoAuthz
  /\ filt = NoFilt

ParamValues == {Undefined} \cup 1..MaxWorkspaces
RoleMetas == {NoRoles} \cup {RolesMeta(rs) : rs \in SUBSET Roles}
RequestUsers == {NoUser} \cup {WithoutHash(u) : u \in users}

\* canActivate applied to an arbitrary execution context
Authorize(meta, user, params) ==
  /\ ~authz.called
  /\ authz' = [called |-> TRUE, route |-> "", requiredRoles |-> meta, user |-> user,
               params |-> params, result |-> canActivate(meta, user, params, access)]
  /\ UNCHANGED <<stores, tasks, filt>>

\* canActivate applied to a request matched to a WorkspaceController route
\* (JwtAuthGuard has attached the user)
AuthorizeRoute(route, user, id) ==
  /\ ~authz.called
  /\ user # NoUser
  /\ authz' = [called |-> TRUE, route |-> route, requiredRoles |-> RouteRoles(route),
               user |-> user, params |-> RouteParams(route, id),
               result |-> canActivate(RouteRoles(route), user, RouteParams(route, id), access)]
  /\ UNCHANGED <<stores, tasks, filt>>

NextGuard ==
  \/ \E meta \in RoleMetas, user \in RequestUsers, pid \in ParamValues, pws \in {Undefined, 1} :
       Authorize(meta, user, [id |-> pid, workspaceId |-> pws])
  \/ \E route \in WorkspaceRoutes, user \in RequestUsers, id \in WorkspaceIds :
       AuthorizeRoute(route, user, id)

SpecGuard == InitSeeded /\ [][NextGuard]_vars

\* ------------------------------------------------ request pipeline (Spec)
\* Each request runs as its own task; every awaited store operation is one step.
RespError(status, message) == [NoResponse EXCEPT !.status = status, !.message = message]
RespWorkspace(status, w) == [NoResponse EXCEPT !.status = status, !.body = w]
RespList(list) == [NoResponse EXCEPT !.status = 200, !.list = list]
RespUser(u) == [NoResponse EXCEPT !.status = 201, !.user = u]
RespDeleted == [NoResponse EXCEPT !.status = 204, !.message = "deleted successfully"]

MsgConflict == "Username already exists"
MsgNotFound == "Workspace not found"

Reply(t, r) == tasks' = [tasks EXCEPT ![t] = [@ EXCEPT !.pc = "done", !.resp = r,
                                                !.tx = NoWorkspace, !.grant = NoAccess]]
Goto(t, label) == tasks' = [tasks EXCEPT ![t].pc = label]

\* ---- POST /auth/signup: AuthService.signup, UsersService.create
StartSignup(t, username, password) ==
  /\ tasks[t].pc = "idle"
  /\ tasks' = [tasks EXCEPT ![t] = [IdleTask EXCEPT !.pc = "signup", !.route = PostSignup,
                                                    !.username = username,
                                                    !.password = password]]
  /\ UNCHANGED <<stores, authz, filt>>

\* variant: the existence check never finds a user
SignupFindNoCheck(t) ==
  /\ tasks[t].pc = "signup"
  /\ Goto(t, "signup_create")
  /\ UNCHANGED <<stores, authz, filt>>

\* const existingUser = await this.usersService.findByUsername(username)
SignupFind(t) ==
  /\ tasks[t].pc = "signup"
  /\ IF findByUsername(users, tasks[t].username).id # 0
     THEN Reply(t, RespError(409, MsgConflict))
     ELSE Goto(t, "signup_create")
  /\ UNCHANGED <<stores, authz, filt>>

\* db.user.create({data: {username, passwordHash}}); username is a unique key
UserCreate(store, id, username, passwordHash) ==
  store \cup {[id |-> id, username |-> username, passwordHash |-> passwordHash]}

\* variant: the user table has no unique key on username
NoUniqueViolation(store, username) == FALSE

\* the unique key on User.username rejects an insert of a stored username
UniqueViolation(store, username) == \E u \in store : u.username = username

\* return this.usersService.create(createUserDto)
SignupCreate(t) ==
  /\ tasks[t].pc = "signup_create"
  /\ IF UniqueViolation(users, tasks[t].username)
     THEN /\ Reply(t, RespError(500, MsgInternal))
          /\ UNCHANGED stores
     ELSE /\ users' = UserCreate(users, nextUserId, tasks[t].username, Hash(tasks[t].password))
          /\ nextUserId' = nextUserId + 1
          /\ Reply(t, RespUser(WithoutHash([id |-> nextUserId, username |-> tasks[t].username,
                                             passwordHash |-> Hash(tasks[t].password)])))
          /\ UNCHANGED <<workspaces, access, nextWorkspaceId, nextAccessId>>
  /\ UNCHANGED <<authz, filt>>

\* ---- POST /auth/signin: LocalStrategy.validate, AuthService.validateUser, signin
MsgInvalidCredentials == "Invalid credentials"

\* variant: the password is verified whether or not a user was found
validateUserEager(store, username, password) ==
  LET user == findByUsername(store, username)
  IN IF user.id # 0 /\ Compare(password, user.passwordHash)
     THEN [called |-> TRUE, compared |-> TRUE, result |-> WithoutHash(user)]
     ELSE [called |-> TRUE, compared |-> TRUE, result |-> NoUser]

\* user && await bcrypt.compare(...) ? result : null
validateUser(store, username, password) ==
  LET user == findByUsername(store, username)
  IN IF user.id = 0
     THEN [called |-> TRUE, compared |-> FALSE, result |-> NoUser]
     ELSE IF Compare(password, user.passwordHash)
          THEN [called |-> TRUE, compared |-> TRUE, result |-> WithoutHash(user)]
          ELSE [called |-> TRUE, compared |-> TRUE, result |-> NoUser]

\* String(user.id)
IdString(id) == ToString(id)
\* jwtService.sign(payload)
Sign(payload) == <<"jwt", payload>>
RespToken(token) == [NoResponse EXCEPT !.status = 201, !.token = token]

StartSignin(t, username, password) ==
  /\ tasks[t].pc = "idle"
  /\ tasks' = [tasks EXCEPT ![t] = [IdleTask EXCEPT !.pc = "validate", !.route = PostSignin,
                                                    !.username = username,
                                                    !.password = password]]
  /\ UNCHANGED <<stores, authz, filt>>

\* variant: an unknown username is answered differently from a wrong password
LocalValidateTellsUnknown(t) ==
  /\ tasks[t].pc = "validate"
  /\ LET v == validateUser(users, tasks[t].username, tasks[t].password)
     IN IF v.result = NoUser
        THEN tasks' = [tasks EXCEPT ![t] = [@ EXCEPT !.pc = "done", !.validation = v,
                         !.resp = IF v.compared
                                  THEN RespError(401, MsgInvalidCredentials)
                                  ELSE RespError(404, "User not found")]]
        ELSE tasks' = [tasks EXCEPT ![t] = [@ EXCEPT !.pc = "signin", !.validation = v,
                         !.user = v.result]]
  /\ UNCHANGED <<stores, authz, filt>>

\* LocalStrategy.validate: validateUser, null -> UnauthorizedException
LocalValidate(t) ==
  /\ tasks[t].pc = "validate"
  /\ LET v == validateUser(users, tasks[t].username, tasks[t].password)
     IN IF v.result = NoUser
        THEN tasks' = [tasks EXCEPT ![t] = [@ EXCEPT !.pc = "done", !.validation = v,
                         !.resp = RespError(401, MsgInvalidCredentials)]]
        ELSE tasks' = [tasks EXCEPT ![t] = [@ EXCEPT !.pc = "signin", !.validation = v,
                         !.user = v.result]]
  /\ UNCHANGED <<stores, authz, filt>>

\* variant: the whole req.user is signed next to sub
SigninWholeUser(t) ==
  /\ tasks[t].pc = "signin"
  /\ Reply(t, RespToken(Sign([username |-> tasks[t].user.username,
                              sub |-> IdString(tasks[t].user.id),
                              id |-> tasks[t].user.id])))
  /\ UNCHANGED <<stores, authz, filt>>

\* AuthController.signin -> AuthService.signin(req.user)
Signin(t) ==
  /\ tasks[t].pc = "signin"
  /\ Reply(t, RespToken(Sign([username |-> tasks[t].user.username,
                              sub |-> IdString(tasks[t].user.id)])))
  /\ UNCHANGED <<stores, authz, filt>>

\* ---- WorkspaceController: JwtAuthGuard, then RolesGuard, then the handler
\* creations in flight that have not drawn their workspace id yet
PendingCreates == {t \in Tasks : tasks[t].route = PostWorkspaces /\ tasks[t].pc = "handler"}

\* A request on a WorkspaceController route.  JwtStrategy.validate looks the
\* token subject up and attaches it as request.user (user rows never change),
\* then RolesGuard.canActivate runs on the matched route with its one store read.
StartRequest(t, route, u, id) ==
  /\ tasks[t].pc = "idle"
  /\ u \in users
  /\ route \in IdRoutes <=> id # Undefined
  /\ route = PostWorkspaces => nextWorkspaceId + Cardinality(PendingCreates) <= MaxWorkspaces
  /\ LET r == canActivate(RouteRoles(route), WithoutHash(u), RouteParams(route, id), access)
         req == [IdleTask EXCEPT !.route = route, !.user = WithoutHash(u), !.id = id]
     IN IF r.outcome = "allow"
        THEN tasks' = [tasks EXCEPT ![t] = [req EXCEPT !.pc = "handler"]]
        ELSE tasks' = [tasks EXCEPT ![t] = [req EXCEPT !.pc = "done",
                                                       !.resp = RespError(403, r.message)]]
  /\ UNCHANGED <<stores, authz, filt>>

\* ---- WorkspaceService.create: one $transaction around two writes
\* data of prisma.workspace.create
NewWorkspace(id, name, description, userId) ==
  [id |-> id, name |-> name, description |-> description, ownerId |-> userId]

\* variant: the initial grant goes to the first user, not to the caller
OwnerGrantFirstUser(id, userId, workspaceId) ==
  [id |-> id, userId |-> 1, workspaceId |-> workspaceId, role |-> OWNER]

\* variant: the initial grant is written with role MEMBER
OwnerGrantMember(id, userId, workspaceId) ==
  [id |-> id, userId |-> userId, workspaceId |-> workspaceId, role |-> MEMBER]

\* variant: the initial grant is written with role ADMIN
OwnerGrantAdmin(id, userId, workspaceId) ==
  [id |-> id, userId |-> userId, workspaceId |-> workspaceId, role |-> ADMIN]

\* variant: the initial grant is keyed by the user id instead of newWorkspace.id
OwnerGrantWrongWorkspace(id, userId, workspaceId) ==
  [id |-> id, userId |-> userId, workspaceId |-> userId, role |-> OWNER]

\* data of prisma.access.create
OwnerGrant(id, userId, workspaceId) ==
  [id |-> id, userId |-> userId, workspaceId |-> workspaceId, role |-> OWNER]

\* variant: the write bypasses the transaction client and is committed at once
WorkspaceCreateOutsideTx(store, w) == store \cup {w}

\* the committed workspace store after a write made through the transaction
\* client: nothing is visible before the commit
WorkspaceCreateInTx(store, w) == store

\* prisma.workspace.create inside the transaction; a failed write rolls back
TxWorkspaceCreate(t, name, description, ok) ==
  /\ tasks[t].pc = "handler" /\ tasks[t].route = PostWorkspaces
  /\ IF ok
     THEN LET w == NewWorkspace(nextWorkspaceId, name, description, tasks[t].user.id)
          IN /\ tasks' = [tasks EXCEPT ![t] = [@ EXCEPT !.pc = "tx_access", !.tx = w]]
             /\ workspaces' = WorkspaceCreateInTx(workspaces, w)
             /\ nextWorkspaceId' = nextWorkspaceId + 1
     ELSE /\ Reply(t, RespError(500, MsgInternal))
          /\ UNCHANGED <<workspaces, nextWorkspaceId>>
  /\ UNCHANGED <<users, access, nextUserId, nextAccessId, authz, filt>>

\* prisma.access.create inside the transaction; a failed write rolls back
TxAccessCreate(t, ok) ==
  /\ tasks[t].pc = "tx_access"
  /\ IF ok
     THEN /\ tasks' = [tasks EXCEPT ![t] = [@ EXCEPT !.pc = "tx_commit",
                         !.grant = OwnerGrant(nextAccessId, tasks[t].user.id, tasks[t].tx.id)]]
          /\ nextAccessId' = nextAccessId + 1
     ELSE /\ Reply(t, RespError(500, MsgInternal))
          /\ UNCHANGED nextAccessId
  /\ UNCHANGED <<users, workspaces, access, nextUserId, nextWorkspaceId, authz, filt>>

\* the callback returned newWorkspace: both writes are committed together
TxCommit(t) ==
  /\ tasks[t].pc = "tx_commit"
  /\ workspaces' = workspaces \cup {tasks[t].tx}
  /\ access' = Append(access, tasks[t].grant)
  /\ Reply(t, RespWorkspace(201, tasks[t].tx))
  /\ UNCHANGED <<users, nextUserId, nextWorkspaceId, nextAccessId, authz, filt>>

\* ---- WorkspaceService.findAllAccessible
\* variant: only the grants of role OWNER are read
findAllAccessibleOwnerOnly(userId) ==
  LET grants == SelectSeq(access, LAMBDA g : g.userId = userId /\ g.role = OWNER)
  IN [i \in 1..Len(grants) |-> WorkspaceFindUnique(workspaces, grants[i].workspaceId)]

\* db.access.findMany({where: {userId}, include: {workspace: true}}).map(ag => ag.workspace)
findAllAccessible(userId) ==
  LET grants == SelectSeq(access, LAMBDA g : g.userId = userId)
  IN [i \in 1..Len(grants) |-> WorkspaceFindUnique(workspaces, grants[i].workspaceId)]

FindAllAccessible(t) ==
  /\ tasks[t].pc = "handler" /\ tasks[t].route = GetWorkspaces
  /\ Reply(t, RespList(findAllAccessible(tasks[t].user.id)))
  /\ UNCHANGED <<stores, authz, filt>>

\* variant: the controller passes the service's null on
FindOnePassesNull(t) ==
  /\ tasks[t].pc = "handler" /\ tasks[t].route = GetWorkspace
  /\ Reply(t, RespWorkspace(200, WorkspaceFindUnique(workspaces, tasks[t].id)))
  /\ UNCHANGED <<stores, authz, filt>>

\* ---- WorkspaceService.findOne and the controller's null -> NotFoundException
FindOne(t) ==
  /\ tasks[t].pc = "handler" /\ tasks[t].route = GetWorkspace
  /\ LET w == WorkspaceFindUnique(workspaces, tasks[t].id)
     IN IF w = NoWorkspace
        THEN Reply(t, RespError(404, MsgNotFound))
        ELSE Reply(t, RespWorkspace(200, w))
  /\ UNCHANGED <<stores, authz, filt>>

\* ---- WorkspaceService.update
Patches == [name : Names \cup {Absent}, description : Descriptions \cup {Absent}]

\* variant: a field the dto does not carry is written as null
ApplyPatchNullsAbsent(w, patch) ==
  [w EXCEPT !.name = IF patch.name = Absent THEN @ ELSE patch.name,
            !.description = IF patch.description = Absent THEN NoDescription
                            ELSE patch.description]

\* db.workspace.update({where: {id}, data: updateWorkspaceDto}) on an existing row
ApplyPatch(w, patch) ==
  [w EXCEPT !.name = IF patch.name = Absent THEN @ ELSE patch.name,
            !.description = IF patch.description = Absent THEN @ ELSE patch.description]

\* variant: update without the existence check
UpdateFindNoCheck(t) ==
  /\ tasks[t].pc = "handler" /\ tasks[t].route = PatchWorkspace
  /\ Goto(t, "update_write")
  /\ UNCHANGED <<stores, authz, filt>>

\* existence check of update
UpdateFind(t) ==
  /\ tasks[t].pc = "handler" /\ tasks[t].route = PatchWorkspace
  /\ IF WorkspaceFindUnique(workspaces, tasks[t].id) = NoWorkspace
     THEN Reply(t, RespError(404, MsgNotFound))
     ELSE Goto(t, "update_write")
  /\ UNCHANGED <<stores, authz, filt>>

\* variant: a row gone at the write is answered like a failed existence check
UpdateWriteNotFound(t, patch) ==
  /\ tasks[t].pc = "update_write"
  /\ LET w == WorkspaceFindUnique(workspaces, tasks[t].id)
     IN IF w = NoWorkspace
        THEN /\ Reply(t, RespError(404, MsgNotFound))
             /\ UNCHANGED workspaces
        ELSE /\ workspaces' = (workspaces \ {w}) \cup {ApplyPatch(w, patch)}
             /\ tasks' = [tasks EXCEPT ![t] = [@ EXCEPT !.pc = "done", !.patch = patch,
                              !.resp = RespWorkspace(200, ApplyPatch(w, patch))]]
  /\ UNCHANGED <<users, access, nextUserId, nextWorkspaceId, nextAccessId, authz, filt>>

\* the store update; it throws when the row is gone
UpdateWrite(t, patch) ==
  /\ tasks[t].pc = "update_write"
  /\ LET w == WorkspaceFindUnique(workspaces, tasks[t].id)
     IN IF w = NoWorkspace
        THEN /\ Reply(t, RespError(500, MsgInternal))
             /\ UNCHANGED workspaces
        ELSE /\ workspaces' = (workspaces \ {w}) \cup {ApplyPatch(w, patch)}
             /\ tasks' = [tasks EXCEPT ![t] = [@ EXCEPT !.pc = "done", !.patch = patch,
                              !.resp = RespWorkspace(200, ApplyPatch(w, patch))]]
  /\ UNCHANGED <<users, access, nextUserId, nextWorkspaceId, nextAccessId, authz, filt>>

\* ---- WorkspaceService.remove
\* db.workspace.delete({where: {id}}): the workspace row
WorkspaceDelete(store, id) == {w \in store : w.id # id}

\* referential-integrity cascade of the Access relation on workspace deletion
AccessCascade(store, workspaceId) == SelectSeq(store, LAMBDA g : g.workspaceId # workspaceId)

\* variant: remove without the existence check
RemoveFindNoCheck(t) ==
  /\ tasks[t].pc = "handler" /\ tasks[t].route = DeleteWorkspace
  /\ Goto(t, "remove_delete")
  /\ UNCHANGED <<stores, authz, filt>>

\* existence check of remove
RemoveFind(t) ==
  /\ tasks[t].pc = "handler" /\ tasks[t].route = DeleteWorkspace
  /\ IF WorkspaceFindUnique(workspaces, tasks[t].id) = NoWorkspace
     THEN Reply(t, RespError(404, MsgNotFound))
     ELSE Goto(t, "remove_delete")
  /\ UNCHANGED <<stores, authz, filt>>

\* the store delete; it throws when the row is gone
RemoveDelete(t) ==
  /\ tasks[t].pc = "remove_delete"
  /\ IF WorkspaceFindUnique(workspaces, tasks[t].id) = NoWorkspace
     THEN /\ Reply(t, RespError(500, MsgInternal))
          /\ UNCHANGED <<workspaces, access>>
     ELSE /\ workspaces' = WorkspaceDelete(workspaces, tasks[t].id)
          /\ access' = AccessCascade(access, tasks[t].id)
          /\ Reply(t, RespDeleted)
  /\ UNCHANGED <<users, nextUserId, nextWorkspaceId, nextAccessId, authz, filt>>

\* the response is sent; the task slot is free again
Finish(t) ==
  /\ tasks[t].pc = "done"
  /\ tasks' = [tasks EXCEPT ![t] = IdleTask]
  /\ UNCHANGED <<stores, authz, filt>>

\* ---- listing specification (SpecList): GET /workspaces over a database that
\* already holds grants of every role
NextList ==
  \/ \E t \in Tasks, u \in SeedUsers : StartRequest(t, GetWorkspaces, u, Undefined)
  \/ \E t \in Tasks : FindAllAccessible(t)
  \/ \E t \in Tasks : Finish(t)

SpecList == InitSeeded /\ [][NextList]_vars

Init ==
  /\ users = {}
  /\ workspaces = {}
  /\ access = <<>>
  /\ nextUserId = 1
  /\ nextWorkspaceId = 1
  /\ nextAccessId = 1
  /\ tasks = [t \in Tasks |-> IdleTask]
  /\ authz = NoAuthz
  /\ filt = NoFilt

TaskStep(t) ==
    \/ \E username \in Usernames, password \in Passwords : StartSignup(t, username, password)
    \/ SignupFind(t)
    \/ SignupCreate(t)
    \/ \E route \in WorkspaceRoutes, u \in users, id \in ParamValues : StartRequest(t, route, u, id)
    \/ \E name \in Names, description \in Descriptions, ok \in BOOLEAN :
         TxWorkspaceCreate(t, name, description, ok)
    \/ \E ok \in BOOLEAN : TxAccessCreate(t, ok)
    \/ TxCommit(t)
    \/ FindAllAccessible(t)
    \/ FindOne(t)
    \/ UpdateFind(t)
    \/ \E patch \in Patches : UpdateWrite(t, patch)
    \/ RemoveFind(t)
    \/ RemoveDelete(t)

Step == \E t \in Tasks : TaskStep(t)

\* A finished handler's response is sent before any other task takes a step:
\* sending touches only the task's own slot, so every interleaving is covered.
ResponsePending == \E t \in Tasks : tasks[t].pc = "done"

Next ==
  \/ \E t \in Tasks : Finish(t)
  \/ ~ResponsePending /\ Step

Spec == Init /\ [][Next]_vars

\* ---- sequential specification (SpecSeq): the same requests, one at a time:
\* a request starts only when no other request is in flight
StepSeq ==
  \E t \in Tasks :
    /\ \A o \in Tasks \ {t} : tasks[o].pc = "idle"
    /\ TaskStep(t)

NextSeq ==
  \/ \E t \in Tasks : Finish(t)
  \/ ~ResponsePending /\ StepSeq

SpecSeq == Init /\ [][NextSeq]_vars

\* ---- full specification (SpecFull): the workspace and signup requests of Spec
\* together with sign-in requests
StepFull ==
  \E t \in Tasks :
    \/ TaskStep(t)
    \/ \E username \in Usernames, password \in AllPasswords : StartSignin(t, username, password)
    \/ LocalValidate(t)
    \/ Signin(t)

NextFull ==
  \/ \E t \in Tasks : Finish(t)
  \/ ~ResponsePending /\ StepFull

SpecFull == Init /\ [][NextFull]_vars

\* ---- filter specification (SpecFilter): AllExceptionsFilter.catch applied to
\* every exception, in production mode and outside it
InitFilter ==
  /\ users = {} /\ workspaces = {} /\ access = <<>>
  /\ nextUserId = 1 /\ nextWorkspaceId = 1 /\ nextAccessId = 1
  /\ tasks = [t \in Tasks |-> IdleTask]
  /\ authz = NoAuthz
  /\ \E production \in BOOLEAN : filt = [NoFilt EXCEPT !.production = production]

Catch(exception, requestId, now) ==
  /\ ~filt.called
  /\ filt' = [filt EXCEPT !.called = TRUE, !.exception = exception, !.requestId = requestId,
                          !.replies = Append(@, catch(exception, filt.production, requestId, now))]
  /\ UNCHANGED <<stores, tasks, authz>>

NextFilter ==
  \E exception \in Exceptions, requestId \in RequestIds, now \in Instants :
    Catch(exception, requestId, now)

SpecFilter == InitFilter /\ [][NextFilter]_vars

\* ---- authentication specification (SpecAuth): signup and signin requests
\* with every password, on an initially empty user table
StepAuth ==
  \E t \in Tasks :
    \/ \E username \in Usernames, password \in AllPasswords : StartSignup(t, username, password)
    \/ SignupFind(t)
    \/ SignupCreate(t)
    \/ \E username \in Usernames, password \in AllPasswords : StartSignin(t, username, password)
    \/ LocalValidate(t)
    \/ Signin(t)

NextAuth ==
  \/ \E t \in Tasks : Finish(t)
  \/ ~ResponsePending /\ StepAuth

SpecAuth == Init /\ [][NextAuth]_vars

\* ======================================================== properties
\* grants and roles a user holds on a workspace, read off the store
GrantsOn(userId, workspaceId) ==
  {i \in 1..Len(access) : access[i].userId = userId /\ access[i].workspaceId = workspaceId}
RolesHeld(userId, workspaceId) == {access[i].role : i \in GrantsOn(userId, workspaceId)}

\* the guard ran on a context with a role list, a user and a workspace id
AuthzFull ==
  /\ authz.called
  /\ authz.requiredRoles.declared /\ authz.requiredRoles.roles # {}
  /\ authz.user # NoUser
  /\ (authz.params.id # Undefined \/ authz.params.workspaceId # Undefined)
AuthzWorkspaceId ==
  IF authz.params.id # Undefined THEN authz.params.id ELSE authz.params.workspaceId

\* C1: with a non-empty required-role set, a user and a workspace id, the guard
\* allows iff the store holds a grant with that user, that workspace and a role
\* of the required set; otherwise it denies with Forbidden (insufficient role).
C1_AllowIffMatchingGrant ==
  AuthzFull =>
    LET held == RolesHeld(authz.user.id, AuthzWorkspaceId) \cap authz.requiredRoles.roles
    IN /\ (authz.result.outcome = "allow") <=> (held # {})
       /\ held = {} => /\ authz.result.outcome = "Forbidden"
                       /\ authz.result.message = MsgInsufficientRole
C1_Witness ==
  /\ AuthzFull
  /\ authz.result.outcome = "allow"
  /\ Len(access) = 2
  /\ \E i \in 1..Len(access) : access[i].workspaceId # AuthzWorkspaceId

\* C2: roles are not hierarchical: {OWNER} denies a user whose only grant on the
\* workspace is MEMBER (or ADMIN); {ADMIN} denies a user whose only grant is OWNER.
C2_NotHierarchical ==
  AuthzFull =>
    LET held == RolesHeld(authz.user.id, AuthzWorkspaceId)
    IN /\ (authz.requiredRoles.roles = {OWNER} /\ held \in {{MEMBER}, {ADMIN}})
            => authz.result.outcome = "Forbidden"
       /\ (authz.requiredRoles.roles = {ADMIN} /\ held = {OWNER})
            => authz.result.outcome = "Forbidden"
C2_Witness ==
  /\ AuthzFull
  /\ authz.requiredRoles.roles = {ADMIN}
  /\ RolesHeld(authz.user.id, AuthzWorkspaceId) = {OWNER}
  /\ authz.result.outcome = "Forbidden"

\* C3: GET /workspaces/:id accepts OWNER, ADMIN or MEMBER, PATCH accepts OWNER or
\* ADMIN, DELETE accepts OWNER only: a user holding only MEMBER passes the guard
\* on GET and never on PATCH or DELETE; a user holding only ADMIN passes on GET
\* and PATCH and never on DELETE.
C3_RouteRoleSets ==
  (authz.called /\ authz.route \in IdRoutes) =>
    LET held == RolesHeld(authz.user.id, authz.params.id)
        ok == authz.result.outcome = "allow"
    IN /\ authz.route = GetWorkspace => authz.requiredRoles.roles = {OWNER, ADMIN, MEMBER}
       /\ authz.route = PatchWorkspace => authz.requiredRoles.roles = {OWNER, ADMIN}
       /\ authz.route = DeleteWorkspace => authz.requiredRoles.roles = {OWNER}
       /\ held = {MEMBER} => (ok <=> authz.route = GetWorkspace)
       /\ held = {ADMIN} => (ok <=> authz.route \in {GetWorkspace, PatchWorkspace})
C3_Witness ==
  /\ authz.called
  /\ authz.route = DeleteWorkspace
  /\ RolesHeld(authz.user.id, authz.params.id) = {ADMIN}
  /\ authz.result.outcome = "Forbidden"

\* C4: with an empty or undeclared required-role set the guard allows
\* unconditionally: whatever the store holds, without querying it, with or
\* without a user or a workspace id (POST /workspaces and GET /workspaces).
C4_NoRolesAllows ==
  (authz.called /\ (~authz.requiredRoles.declared \/ authz.requiredRoles.roles = {})) =>
    /\ authz.result.outcome = "allow"
    /\ ~authz.result.queried
C4_Witness ==
  /\ authz.called
  /\ authz.requiredRoles = RolesMeta({})
  /\ authz.user = NoUser
  /\ authz.params = NoParams
  /\ access # <<>>
  /\ authz.result.outcome = "allow"

\* C5: with a non-empty required-role set and no user on the request the guard
\* denies as unauthenticated, whatever the parameters and the grants, and
\* without querying the store.
C5_NoUserDenied ==
  (/\ authz.called
   /\ authz.requiredRoles.declared /\ authz.requiredRoles.roles # {}
   /\ authz.user = NoUser) =>
    /\ authz.result.outcome = "Forbidden"
    /\ authz.result.message = MsgUnauthenticated
    /\ ~authz.result.queried
C5_Witness ==
  /\ authz.called
  /\ authz.requiredRoles.roles # {}
  /\ authz.user = NoUser
  /\ authz.params = NoParams
  /\ access # <<>>
  /\ authz.result.message = MsgUnauthenticated

\* C6: with a non-empty required-role set and a user, when the parameters hold
\* neither id nor workspaceId the guard denies for the missing workspace
\* identifier without querying the store.
C6_NoWorkspaceIdDenied ==
  (/\ authz.called
   /\ authz.requiredRoles.declared /\ authz.requiredRoles.roles # {}
   /\ authz.user # NoUser
   /\ authz.params.id = Undefined /\ authz.params.workspaceId = Undefined) =>
    /\ authz.result.outcome = "Forbidden"
    /\ authz.result.message = MsgNoWorkspaceId
    /\ ~authz.result.queried
C6_Witness ==
  /\ authz.called
  /\ authz.requiredRoles.roles # {}
  /\ authz.user # NoUser
  /\ authz.params = NoParams
  /\ \E i \in 1..Len(access) : access[i].userId = authz.user.id
  /\ authz.result.message = MsgNoWorkspaceId

\* a task whose handler has just answered
Answered(t, route, status) ==
  tasks[t].pc = "done" /\ tasks[t].route = route /\ tasks[t].resp.status = status

\* C7: a successful createWorkspace leaves exactly one grant on the new
\* workspace id, held by the caller with role OWNER, and returns a workspace
\* whose ownerId is the caller's id.
C7_CreateLeavesOneOwnerGrant ==
  [][\A t \in Tasks :
       (tasks[t].pc = "tx_commit" /\ tasks'[t].pc = "done") =>
         LET w == tasks'[t].resp.body
             on == {i \in 1..Len(access') : access'[i].workspaceId = w.id}
         IN /\ tasks'[t].resp.status = 201
            /\ w \in workspaces'
            /\ w.ownerId = tasks[t].user.id
            /\ Cardinality(on) = 1
            /\ \A i \in on : access'[i].userId = tasks[t].user.id /\ access'[i].role = OWNER]_vars
C7_Witness ==
  \E t \in Tasks :
    /\ Answered(t, PostWorkspaces, 201)
    /\ tasks[t].resp.body \in workspaces
    /\ Len(access) = 2

\* C8: createWorkspace is atomic: while the transaction is open nothing of it
\* is in the stores, a failed write ends the request with the error and leaves
\* both stores without the workspace and without a grant on it, and every
\* workspace any request can read has its owner's OWNER grant.
C8_CreateAtomic ==
  /\ [](\A t \in Tasks : tasks[t].pc \in {"tx_access", "tx_commit"} =>
          /\ \A w \in workspaces : w.id # tasks[t].tx.id
          /\ \A i \in 1..Len(access) : access[i].workspaceId # tasks[t].tx.id)
  /\ [](\A w \in workspaces : \E i \in 1..Len(access) :
          /\ access[i].workspaceId = w.id
          /\ access[i].userId = w.ownerId
          /\ access[i].role = OWNER)
  /\ [][\A t \in Tasks :
          (/\ tasks[t].route = PostWorkspaces
           /\ tasks[t].pc \in {"handler", "tx_access"}
           /\ tasks'[t].pc = "done") =>
            /\ tasks'[t].resp.status = 500
            /\ workspaces' = workspaces /\ access' = access
            /\ \A w \in workspaces' : w.id # tasks[t].tx.id
            /\ \A i \in 1..Len(access') : access'[i].workspaceId # tasks[t].tx.id]_vars
\* the grant write failed after the workspace write had drawn id 1
C8_Witness ==
  \E t \in Tasks :
    /\ Answered(t, PostWorkspaces, 500)
    /\ nextWorkspaceId = 2 /\ nextAccessId = 1
    /\ workspaces = {} /\ access = <<>>

\* C9: after any sequence of create, update and remove calls every existing
\* workspace has at least one grant with role OWNER.
C9_WorkspaceHasOwnerGrant ==
  \A w \in workspaces :
    \E i \in 1..Len(access) : access[i].workspaceId = w.id /\ access[i].role = OWNER
C9_Witness ==
  /\ \E t \in Tasks : Answered(t, DeleteWorkspace, 204)
  /\ \E w \in workspaces : w.name = "W2" /\ w.id = 2
  /\ Cardinality(workspaces) = 1

\* C10: every grant references an existing user and an existing workspace, and
\* a successful remove leaves no grant with the removed workspace id.
C10_GrantsReferenceExisting ==
  /\ [](\A i \in 1..Len(access) :
          /\ \E u \in users : u.id = access[i].userId
          /\ \E w \in workspaces : w.id = access[i].workspaceId)
  /\ [][\A t \in Tasks :
          (tasks[t].pc = "remove_delete" /\ tasks'[t].resp.status = 204) =>
            /\ \A w \in workspaces' : w.id # tasks[t].id
            /\ \A i \in 1..Len(access') : access'[i].workspaceId # tasks[t].id]_vars
C10_Witness ==
  \E t \in Tasks :
    /\ Answered(t, DeleteWorkspace, 204)
    /\ Len(access) = 1
    /\ nextAccessId = 3

\* task t takes a step of its handler
Steps(t) == tasks'[t] # tasks[t]
\* the service has been entered for route with an id no workspace has
EntersMissing(t, route) ==
  /\ tasks[t].pc = "handler" /\ tasks[t].route = route
  /\ \A w \in workspaces : w.id # tasks[t].id
  /\ Steps(t)

\* C11: remove on an id no workspace has fails with NotFound; the delete is
\* not issued and no store changes.
C11_RemoveMissingNotFound ==
  [][\A t \in Tasks :
       EntersMissing(t, DeleteWorkspace) =>
         /\ tasks'[t].pc = "done"
         /\ tasks'[t].resp.status = 404
         /\ users' = users /\ workspaces' = workspaces /\ access' = access]_vars
C11_Witness ==
  \E t \in Tasks : Answered(t, DeleteWorkspace, 404) /\ workspaces # {}

\* C12: update on an id no workspace has fails with NotFound and the store
\* update is not issued; the store update of an existing workspace returns the
\* updated workspace.
C12_UpdateMissingNotFound ==
  [][\A t \in Tasks :
       /\ EntersMissing(t, PatchWorkspace) =>
            /\ tasks'[t].pc = "done"
            /\ tasks'[t].resp.status = 404
            /\ users' = users /\ workspaces' = workspaces /\ access' = access
       /\ (/\ tasks[t].pc = "update_write"
           /\ \E w \in workspaces : w.id = tasks[t].id
           /\ Steps(t)) =>
            /\ tasks'[t].resp.status = 200
            /\ tasks'[t].resp.body.id = tasks[t].id
            /\ tasks'[t].resp.body \in workspaces']_vars
C12_Witness ==
  \E t \in Tasks : Answered(t, PatchWorkspace, 404) /\ workspaces # {}

\* C13: a successful update changes only the name and/or description of the
\* targeted workspace, and only the fields the patch carries: its id and
\* ownerId, every other workspace, the grants and the users are unchanged.
C13_UpdateFrame ==
  [][\A t \in Tasks :
       (tasks[t].pc = "update_write" /\ tasks'[t].resp.status = 200) =>
         LET old == CHOOSE w \in workspaces : w.id = tasks[t].id
             new == tasks'[t].resp.body
             p == tasks'[t].patch
         IN /\ new.id = old.id /\ new.ownerId = old.ownerId
            /\ new.name = (IF p.name = Absent THEN old.name ELSE p.name)
            /\ new.description =
                 (IF p.description = Absent THEN old.description ELSE p.description)
            /\ new \in workspaces'
            /\ {w \in workspaces' : w.id # old.id} = {w \in workspaces : w.id # old.id}
            /\ Cardinality(workspaces') = Cardinality(workspaces)
            /\ access' = access /\ users' = users]_vars
C13_Witness ==
  \E t \in Tasks :
    /\ Answered(t, PatchWorkspace, 200)
    /\ tasks[t].patch.name = "W2" /\ tasks[t].patch.description = Absent
    /\ tasks[t].resp.body.description = "d1"
    /\ Cardinality(workspaces) = 2

\* the positions of userId's grants in the Access Grant Store
GrantIndexes(userId) == {k \in 1..Len(access) : access[k].userId = userId}

\* C14: the list answered to GET /workspaces holds exactly the workspaces on
\* which the caller has a grant of any role, one entry per grant in the order
\* the grants were inserted, and is empty for a caller with no grant.
C14_ListAccessible ==
  \A t \in Tasks :
    Answered(t, GetWorkspaces, 200) =>
      LET idx == GrantIndexes(tasks[t].user.id)
          list == tasks[t].resp.list
      IN /\ Len(list) = Cardinality(idx)
         /\ \A k \in idx :
              LET w == list[Cardinality({j \in idx : j <= k})]
              IN w \in workspaces /\ w.id = access[k].workspaceId
         /\ {list[i] : i \in 1..Len(list)} =
              {w \in workspaces : \E r \in Roles : r \in RolesHeld(tasks[t].user.id, w.id)}
         /\ (idx = {} => list = <<>>)
C14_Witness ==
  \E t \in Tasks :
    /\ Answered(t, GetWorkspaces, 200)
    /\ tasks[t].user.username = "alice"
    /\ Len(access) = 2
    /\ access[1].userId = 1 /\ access[1].workspaceId = 2 /\ access[1].role = MEMBER
    /\ access[2].userId = 2 /\ access[2].workspaceId = 1 /\ access[2].role = OWNER
    /\ tasks[t].resp.list = <<SeedWorkspace(2)>>

\* C15: a request on a workspace-scoped route by an authenticated user with
\* no grant on the target id is answered Forbidden by the guard, whether or
\* not the workspace exists: it never enters the service (no NotFound, no
\* store change).
C15_ForbiddenBeforeNotFound ==
  [][\A t \in Tasks :
       (/\ tasks[t].pc = "idle" /\ tasks'[t].pc # "idle"
        /\ tasks'[t].route \in IdRoutes
        /\ GrantsOn(tasks'[t].user.id, tasks'[t].id) = {}) =>
         /\ tasks'[t].pc = "done"
         /\ tasks'[t].resp.status = 403
         /\ users' = users /\ workspaces' = workspaces /\ access' = access]_vars
C15_Witness ==
  \E t \in Tasks :
    /\ Answered(t, DeleteWorkspace, 403)
    /\ tasks[t].user.username = "bob"
    /\ GrantsOn(tasks[t].user.id, tasks[t].id) = {}
    /\ \E w \in workspaces : w.id = tasks[t].id /\ w.ownerId # tasks[t].user.id

\* C16: update and remove check existence and write in two steps.  When a
\* concurrent remove commits between the two, the write finds no row and the
\* request ends in an internal error (500), not in NotFound, with the
\* database left as the concurrent remove made it.
C16_RaceEndsInternalError ==
  [][\A t \in Tasks :
       (/\ tasks[t].pc \in {"update_write", "remove_delete"}
        /\ \A w \in workspaces : w.id # tasks[t].id
        /\ Steps(t)) =>
         /\ tasks'[t].pc = "done"
         /\ tasks'[t].resp.status = 500
         /\ tasks'[t].resp.message = MsgInternal
         /\ users' = users /\ workspaces' = workspaces /\ access' = access]_vars
C16_Witness ==
  \E t \in Tasks :
    /\ Answered(t, PatchWorkspace, 500)
    /\ \A w \in workspaces : w.id # tasks[t].id
    /\ nextWorkspaceId > tasks[t].id

\* C17: no two stored users have the same username, also after concurrent
\* signups of one username.
C17_UniqueUsernames ==
  \A u1 \in users, u2 \in users : u1.username = u2.username => u1 = u2
C17_Witness ==
  \E t \in Tasks :
    /\ Answered(t, PostSignup, 500)
    /\ \E u \in users : u.username = tasks[t].username
    /\ Cardinality(users) = 2

\* C18: a signup of a username that is already stored is answered Conflict
\* at the existence check, whatever its password: no user is created and the
\* stored rows (hash included) stay as they are.
C18_SecondSignupConflict ==
  [][\A t \in Tasks :
       (/\ tasks[t].pc = "signup"
        /\ \E u \in users : u.username = tasks[t].username
        /\ Steps(t)) =>
         /\ tasks'[t].pc = "done"
         /\ tasks'[t].resp.status = 409
         /\ tasks'[t].resp.message = MsgConflict
         /\ users' = users /\ nextUserId' = nextUserId]_vars
C18_Witness ==
  \E t \in Tasks :
    /\ Answered(t, PostSignup, 409)
    /\ tasks[t].password = "pw2"
    /\ \E u \in users : u.username = tasks[t].username /\ u.passwordHash = Hash("pw1")

\* the stored users whose credentials are those of task t's request
Matching(t) ==
  {u \in users : u.username = tasks[t].username /\ u.passwordHash = Hash(tasks[t].password)}

\* C19: validateUser with the credentials of a signed-up user returns that
\* user's id and username without the passwordHash field, and no result of
\* signup or validateUser carries a passwordHash field.
C19_ValidCredentialsReturnUserWithoutHash ==
  \A t \in Tasks :
    /\ (tasks[t].validation.called /\ Matching(t) # {}) =>
         \E u \in Matching(t) :
           /\ tasks[t].validation.result.id = u.id
           /\ tasks[t].validation.result.username = u.username
           /\ DOMAIN tasks[t].validation.result = {"id", "username"}
    /\ tasks[t].validation.called =>
         "passwordHash" \notin DOMAIN tasks[t].validation.result
    /\ Answered(t, PostSignup, 201) =>
         /\ "passwordHash" \notin DOMAIN tasks[t].resp.user
         /\ \E u \in Matching(t) : tasks[t].resp.user = [id |-> u.id, username |-> u.username]
C19_Witness ==
  \E t \in Tasks :
    /\ tasks[t].pc = "signin"
    /\ tasks[t].validation.called /\ tasks[t].validation.compared
    /\ tasks[t].password = "pw2"
    /\ tasks[t].validation.result = [id |-> 2, username |-> "alice"]

\* C20: validateUser returns null both for a wrong password of a stored user
\* and for a username that is not stored; in the second case the password is
\* not verified; the user table is unchanged in both.
C20_BadCredentialsReturnNull ==
  [][\A t \in Tasks :
       (tasks[t].pc = "validate" /\ Matching(t) = {} /\ Steps(t)) =>
         /\ tasks'[t].validation.called
         /\ tasks'[t].validation.result = NoUser
         /\ tasks'[t].validation.compared =
              (\E u \in users : u.username = tasks[t].username)
         /\ tasks'[t].resp.status # 500
         /\ users' = users /\ nextUserId' = nextUserId]_vars
C20_Witness ==
  \E t \in Tasks :
    /\ Answered(t, PostSignin, 401)
    /\ tasks[t].validation.called /\ tasks[t].validation.compared
    /\ tasks[t].validation.result = NoUser
    /\ \E u \in users : u.username = tasks[t].username /\ u.passwordHash # Hash(tasks[t].password)

\* C21: a sign-in with an unknown username and a sign-in with a stored
\* username and a wrong password get the same result from validateUser (null)
\* and the same response (401 'Invalid credentials'), whatever users are stored.
C21_FailedSigninIndistinguishable ==
  \A t \in Tasks :
    (tasks[t].route = PostSignin /\ tasks[t].validation.called /\ Matching(t) = {}) =>
      /\ tasks[t].pc = "done"
      /\ tasks[t].validation.result = NoUser
      /\ tasks[t].resp = RespError(401, MsgInvalidCredentials)
C21_Witness ==
  \E t \in Tasks :
    /\ Answered(t, PostSignin, 401)
    /\ ~tasks[t].validation.compared
    /\ users # {}
    /\ \A u \in users : u.username # tasks[t].username

\* C22: the token answered to a sign-in is the signature of the payload
\* {username, sub} where username is the validated user's and sub is that
\* user's id as a string; the payload has no other field.
C22_TokenPayload ==
  \A t \in Tasks :
    Answered(t, PostSignin, 201) =>
      /\ Len(tasks[t].resp.token) = 2 /\ tasks[t].resp.token[1] = "jwt"
      /\ DOMAIN tasks[t].resp.token[2] = {"username", "sub"}
      /\ \E u \in Matching(t) :
           /\ tasks[t].resp.token[2].username = u.username
           /\ tasks[t].resp.token[2].sub = ToString(u.id)
C22_Witness ==
  \E t \in Tasks :
    /\ Answered(t, PostSignin, 201)
    /\ tasks[t].resp.token = <<"jwt", [username |-> "bob", sub |-> "1"]>>

\* C23: findOne only looks the workspace up: it answers the stored workspace
\* with the requested id when there is one, whoever the caller is, NotFound
\* when there is none, and changes no store.
C23_FindOneLookupOnly ==
  [][\A t \in Tasks :
       (tasks[t].pc = "handler" /\ tasks[t].route = GetWorkspace /\ Steps(t)) =>
         /\ tasks'[t].pc = "done"
         /\ \A w \in workspaces : w.id = tasks[t].id =>
              tasks'[t].resp.status = 200 /\ tasks'[t].resp.body = w
         /\ (\A w \in workspaces : w.id # tasks[t].id) =>
              tasks'[t].resp.status = 404 /\ tasks'[t].resp.body = NoWorkspace
         /\ users' = users /\ workspaces' = workspaces /\ access' = access]_vars
C23_Witness ==
  \E t \in Tasks :
    /\ Answered(t, GetWorkspace, 404)
    /\ \A w \in workspaces : w.id # tasks[t].id
    /\ tasks[t].id < nextWorkspaceId

\* the filter has answered an exception; its reply and the exception's own texts
Caught == filt.called /\ Len(filt.replies) >= 1
FilterReply == filt.replies[1]
OwnTexts(e) ==
  {e.message, e.response.text, e.response.message, e.response.description,
   e.response.error} \ {Absent, ""}
ServerFailure(e) == ~e.http \/ e.status >= 500
ClientFailure(e) == e.http /\ e.status >= 400 /\ e.status < 500

\* C24: in production mode the reply to a failure that is no HttpException or
\* has a status >= 500 carries the message 'Internal Server Error' and no
\* description; neither field holds a text of the exception.
C24_ProductionServerErrorGeneric ==
  (Caught /\ filt.production /\ ServerFailure(filt.exception)) =>
    /\ FilterReply.status >= 500
    /\ FilterReply.body.error.message = "Internal Server Error"
    /\ FilterReply.body.error.description = Absent
    /\ FilterReply.body.error.message \notin OwnTexts(filt.exception)
C24_Witness ==
  /\ Caught /\ filt.production
  /\ filt.exception.http /\ filt.exception.status = 503
  /\ filt.exception.response.kind = "object"
  /\ filt.exception.response.message = "Own message"
  /\ filt.exception.response.description = "Own description"
  /\ FilterReply.body.error.message = "Internal Server Error"

\* C25 as stated: a 4xx reply carries a message, and a description only
\* outside production mode.
C25_DescriptionOnlyOutsideProduction ==
  (Caught /\ ClientFailure(filt.exception)) =>
    /\ FilterReply.body.error.message \notin {Absent, ""}
    /\ FilterReply.body.error.description # Absent => ~filt.production

\* C25: a 4xx reply carries a message, and it carries a description exactly
\* when the exception's response object has a description or an error field,
\* in production mode as outside it.
C25_ClientErrorDescription ==
  (Caught /\ ClientFailure(filt.exception)) =>
    LET r == filt.exception.response
    IN /\ FilterReply.status = filt.exception.status
       /\ FilterReply.body.error.message \notin {Absent, ""}
       /\ FilterReply.body.error.description # Absent <=>
            (r.kind = "object" /\ (r.description # Absent \/ r.error # Absent))
C25_Witness ==
  /\ Caught /\ filt.production
  /\ filt.exception.status = 404 /\ ~filt.exception.unauthorized
  /\ filt.exception.response.kind = "object"
  /\ filt.exception.response.description = Absent
  /\ FilterReply.body.error.description = "Not Found"

\* C26: every exception the filter catches gets exactly one reply whose body
\* has success = false, an error with a code and a message, a timestamp and
\* the request's id as traceId; the status is the HttpException's own status,
\* and 500 with code INTERNAL_SERVER_ERROR for any other exception.
C26_ErrorEnvelope ==
  filt.called =>
    /\ Len(filt.replies) = 1
    /\ FilterReply.body.success = FALSE
    /\ FilterReply.body.error.code.num # 0 \/ FilterReply.body.error.code.str # ""
    /\ FilterReply.body.error.message \notin {Absent, ""}
    /\ FilterReply.body.timestamp \in Instants
    /\ FilterReply.body.traceId = filt.requestId
    /\ filt.exception.http => FilterReply.status = filt.exception.status
    /\ ~filt.exception.http =>
         /\ FilterReply.status = 500
         /\ FilterReply.body.error.code = [num |-> 0, str |-> "INTERNAL_SERVER_ERROR"]
C26_Witness ==
  /\ filt.called /\ ~filt.exception.http
  /\ filt.requestId = "req-2"
  /\ FilterReply.status = 500
  /\ FilterReply.body.traceId = "req-2"

\* C27 as stated: of the concurrent signups of one unused username exactly
\* one creates a user and every other one is answered Conflict, never an
\* unexpected store error.
C27_ConcurrentSignupConflict ==
  /\ \A t \in Tasks :
       (tasks[t].route = PostSignup /\ tasks[t].pc = "done") =>
         tasks[t].resp.status \in {201, 409}
  /\ \A u1 \in users, u2 \in users : u1.username = u2.username => u1.id = u2.id

\* C28: with the service operations alone every grant has role OWNER, is held
\* by the ownerId of its workspace and is the only grant of its (userId,
\* workspaceId) pair; so a request on /workspaces/:id by anyone but the
\* workspace's owner is answered Forbidden and no list of accessible
\* workspaces holds a workspace twice.
C28_OnlyOwnerGrants ==
  /\ \A i \in 1..Len(access) :
       /\ access[i].role = OWNER
       /\ \A w \in workspaces : w.id = access[i].workspaceId => w.ownerId = access[i].userId
       /\ \A j \in 1..Len(access) :
            (access[j].userId = access[i].userId /\
             access[j].workspaceId = access[i].workspaceId) => j = i
  /\ \A t \in Tasks :
       /\ (/\ tasks[t].route \in IdRoutes
           /\ \E w \in workspaces : w.id = tasks[t].id /\ w.ownerId # tasks[t].user.id) =>
            (tasks[t].pc = "done" /\ tasks[t].resp.status = 403)
       /\ Answered(t, GetWorkspaces, 200) =>
            \A i, j \in 1..Len(tasks[t].resp.list) :
              tasks[t].resp.list[i].id = tasks[t].resp.list[j].id => i = j
C28_Witness ==
  \E t \in Tasks :
    /\ Answered(t, PatchWorkspace, 403)
    /\ tasks[t].user.username = "bob"
    /\ \E w \in workspaces : w.id = tasks[t].id /\ w.ownerId # tasks[t].user.id
    /\ \E w \in workspaces : w.ownerId = tasks[t].user.id
    /\ Len(access) = 2

\* C29: when requests run one at a time, no GET, PATCH or DELETE on
\* /workspaces/:id is answered NotFound: for an id without a workspace the
\* guard has answered Forbidden, and the service is entered only for
\* workspaces that exist.
C29_SequentialNeverNotFound ==
  \A t \in Tasks :
    tasks[t].route \in IdRoutes =>
      /\ tasks[t].pc = "done" => tasks[t].resp.status \notin {404, 500}
      /\ (\A w \in workspaces : w.id # tasks[t].id) =>
           (tasks[t].pc = "done" /\ tasks[t].resp.status \in {403, 204})
C29_Witness ==
  \E t \in Tasks :
    /\ Answered(t, GetWorkspace, 403)
    /\ tasks[t].id < nextWorkspaceId
    /\ \A w \in workspaces : w.id # tasks[t].id
    /\ \E u \in users : u.id = tasks[t].user.id /\ u.username = "alice"
    /\ Cardinality(users) = 1

\* a request of task t ends successfully in this step with a write
Writes(t) ==
  /\ tasks[t].pc # "done" /\ tasks'[t].pc = "done"
  /\ \/ tasks'[t].route = PostSignup /\ tasks'[t].resp.status = 201
     \/ tasks'[t].route = PostWorkspaces /\ tasks'[t].resp.status = 201
     \/ tasks'[t].route = PatchWorkspace /\ tasks'[t].resp.status = 200
     \/ tasks'[t].route = DeleteWorkspace /\ tasks'[t].resp.status = 204

\* C30: a step that rejects a request (401, 403, 404, 409), the guard, the
\* credential validation and the two read routes leave the user, workspace and
\* grant stores as they were; a store changes only in the step that completes
\* a successful signup, createWorkspace, update or remove.
C30_ServiceLayerSoleWriter ==
  [][/\ (users' # users \/ workspaces' # workspaces \/ access' # access) =>
          \E t \in Tasks : Writes(t)
     /\ \A t \in Tasks :
          (/\ Steps(t)
           /\ \/ tasks'[t].resp.status \in {401, 403, 404, 409}
              \/ tasks'[t].route \in {GetWorkspaces, GetWorkspace}
              \/ tasks[t].pc \in {"idle", "validate"}) =>
            users' = users /\ workspaces' = workspaces /\ access' = access]_vars
C30_Witness ==
  \E t \in Tasks :
    /\ Answered(t, PostSignin, 401)
    /\ tasks[t].validation.compared
    /\ workspaces # {} /\ access # <<>>

====
